---------------------------- MODULE Spec2Model ----------------------------
(***************************************************************************)
(* Model of lambda/apigw-handler/index.py: the Lambda entry point          *)
(* `handler`, the insert handler `handle_post_request`, the health handler *)
(* `handle_health_check`, and their helpers `write_to_dynamodb` and        *)
(* `check_dynamodb_health`.                                                *)
(*                                                                         *)
(* The Lambda runtime hands the function one event at a time: an action    *)
(* runs `handler` on an event from start to end, and `Deliver` hands the   *)
(* outcome to the caller and makes the function ready for the next event.  *)
(* Python code is                                                          *)
(* translated statement by statement into operators over an execution      *)
(* state `st` that carries the effects made so far and the exception in    *)
(* flight, if any: a statement does nothing while an exception is in       *)
(* flight, and a try/except clears it and runs the matching clause.        *)
(*                                                                         *)
(* External collaborators are inputs of the invocation (`env`): the        *)
(* outcome of the DynamoDB call, the readings of the clock, and the set of *)
(* log/metric/trace call sites that raise.                                 *)
(***************************************************************************)
EXTENDS Integers, Sequences, FiniteSets, TLC

VARIABLES
    table,       \* the DynamoDB table: primary key (id) -> stored item
    uuidCount,   \* number of identifiers uuid.uuid4() has handed out
    loggerKeys,  \* keys appended to the module-level logger (persist across invocations)
    event,       \* the event of the latest invocation
    context,     \* the LambdaContext of the latest invocation
    env,         \* what the collaborators did during the latest invocation
    result,      \* how the latest invocation ended: returned response or raised
    trace        \* effects of the latest invocation, in program order

vars == <<table, uuidCount, loggerKeys, event, context, env, result, trace>>

---------------------------------------------------------------------------
(* Bounds of the model.                                                    *)

\* uuid.uuid4() is called at most this many times in a behaviour
MaxUuid == 2

---------------------------------------------------------------------------
(* Python values.  A float holding milliseconds is kept in fixed point, as *)
(* a whole number of microseconds.                                         *)

PyStr(s) == [t |-> "str", s |-> s]
PyInt(n) == [t |-> "int", n |-> n]
PyFloat(us) == [t |-> "float", us |-> us]
PyNone == [t |-> "None"]
PyBool(b) == [t |-> "bool", b |-> b]
PyNaN == [t |-> "nan"]
PyList(xs) == [t |-> "list", xs |-> xs]
\* a dict keeps insertion order: a sequence of <<key, value>> pairs
PyDict(kvs) == [t |-> "dict", kvs |-> kvs]

Keys(d) == {d.kvs[i][1] : i \in 1..Len(d.kvs)}
Lookup(d, k) == d.kvs[CHOOSE i \in 1..Len(d.kvs) : d.kvs[i][1] = k][2]

Digit(n) == <<"0", "1", "2", "3", "4", "5", "6", "7", "8", "9">>[n + 1]

RECURSIVE IntToStr(_)
IntToStr(n) ==
    IF n < 0 THEN "-" \o IntToStr(-n)
    ELSE IF n < 10 THEN Digit(n)
    ELSE IntToStr(n \div 10) \o Digit(n % 10)

\* repr() of a float with at most two decimals: 12.0, 12.3, 12.35
FloatRepr(us) ==
    LET whole == us \div 1000
        tenths == (us % 1000) \div 100
        hundredths == ((us % 1000) \div 10) % 10
    IN  IntToStr(whole) \o "." \o Digit(tenths)
            \o (IF hundredths = 0 THEN "" ELSE Digit(hundredths))

\* round(x, 2) of a millisecond value: to a multiple of 10 microseconds,
\* ties to even
round2(x) ==
    LET q == x.us \div 10
        r == x.us % 10
        up == r > 5 \/ (r = 5 /\ q % 2 = 1)
    IN  PyFloat(10 * (IF up THEN q + 1 ELSE q))

\* str(v)
py_str(v) ==
    CASE v.t = "str" -> v.s
      [] v.t = "int" -> IntToStr(v.n)
      [] v.t = "None" -> "None"
      [] v.t = "nan" -> "nan"
      [] v.t = "float" -> FloatRepr(v.us)
      [] v.t = "list" -> "[]"

\* bool(v): the truth value the `if` at line 108 tests
py_truthy(v) ==
    CASE v.t = "str" -> v.s # ""
      [] v.t = "None" -> FALSE
      [] OTHER -> TRUE

RECURSIVE json_dumps(_)
RECURSIVE DumpElements(_, _)
RECURSIVE DumpMembers(_, _)
\* json.dumps(v) with the default separators
json_dumps(v) ==
    CASE v.t = "str" -> "\"" \o v.s \o "\""
      [] v.t = "int" -> IntToStr(v.n)
      [] v.t = "float" -> FloatRepr(v.us)
      [] v.t = "None" -> "null"
      [] v.t = "bool" -> IF v.b THEN "true" ELSE "false"
      [] v.t = "nan" -> "NaN"
      [] v.t = "list" -> "[" \o DumpElements(v.xs, 1) \o "]"
      [] v.t = "dict" -> "{" \o DumpMembers(v.kvs, 1) \o "}"
\* the elements of a list from index i
DumpElements(xs, i) ==
    IF i > Len(xs) THEN ""
    ELSE (IF i > 1 THEN ", " ELSE "") \o json_dumps(xs[i]) \o DumpElements(xs, i + 1)
\* the "key": value members of a dict from index i
DumpMembers(kvs, i) ==
    IF i > Len(kvs) THEN ""
    ELSE (IF i > 1 THEN ", " ELSE "")
         \o "\"" \o kvs[i][1] \o "\": " \o json_dumps(kvs[i][2])
         \o DumpMembers(kvs, i + 1)

---------------------------------------------------------------------------
(* Request documents.  json.loads is the inverse of json.dumps on the      *)
(* documents of the model; every other text fails to parse, except the     *)
(* literal NaN, which Python's decoder accepts although it is not JSON.    *)

Absent == [t |-> "absent"]

YearValues == {PyInt(1999), PyStr("2012")}
IdValues == {PyStr("a"), PyStr("")}

Member(k, v) == IF v = Absent THEN <<>> ELSE << <<k, v>> >>

\* a JSON object with the fields that are not Absent, in the order year,
\* title, id
Doc(y, ti, i) == PyDict(Member("year", y) \o Member("title", ti) \o Member("id", i))

\* objects with all three fields: every year and id with a string title,
\* and one whose title is null
FullDocs ==
    {Doc(y, PyStr("Dune"), i) : y \in YearValues, i \in IdValues}
        \cup {Doc(PyInt(1999), PyNone, PyStr("a"))}

\* objects that lack at least one of the three fields
PartialDocs ==
    {Doc(y, ti, i) : y \in {PyInt(1999), Absent}, ti \in {PyStr("Dune"), Absent},
                     i \in {PyStr("a"), Absent}}
        \ {Doc(PyInt(1999), PyStr("Dune"), PyStr("a"))}

ObjectDocs == FullDocs \cup PartialDocs

\* JSON documents that are not objects: a number, a string, a boolean,
\* null, an array
NonObjectDocs == {PyInt(7), PyStr("x"), PyBool(TRUE), PyNone, PyList(<<>>)}

\* the documents of RFC 8259 that the model's requests carry
JsonDocs == ObjectDocs \cup NonObjectDocs

\* what json.loads can return: the documents, and float('nan') for NaN
PyDocs == JsonDocs \cup {PyNaN}

\* texts no JSON grammar derives
InvalidTexts == {"invalid json {", "{'year': 1999}"}

\* the raw request bodies of the model
BodyTexts == {json_dumps(d) : d \in PyDocs} \cup InvalidTexts \cup {""}

\* the decoder's table: each text the decoder accepts, with its document
DecoderTable == [s \in {json_dumps(d) : d \in PyDocs} |->
                    CHOOSE d \in PyDocs : json_dumps(d) = s]

\* json.loads(s): the decoded document, or JSONDecodeError
json_loads(s) ==
    IF s \in DOMAIN DecoderTable
    THEN [ok |-> TRUE, v |-> DecoderTable[s]]
    ELSE [ok |-> FALSE, v |-> PyNone]

---------------------------------------------------------------------------
(* Exceptions and the execution state.                                     *)

NoExc == [type |-> "none", msg |-> ""]
Exc(type, msg) == [type |-> type, msg |-> msg]

Raised(st) == st.exc.type # "none"
Raise(st, e) == IF Raised(st) THEN st ELSE [st EXCEPT !.exc = e]
\* entering an except clause: the exception is no longer in flight
Catch(st) == [st EXCEPT !.exc = NoExc]
Emit(st, e) == [st EXCEPT !.trace = Append(@, e)]

\* repr() of a str key, as str(KeyError(key)) renders it
KeyRepr(k) == "'" \o k \o "'"

\* a subscript that reports a missing key for every value without it
py_getitem_lenient(v, k) ==
    IF v.t = "dict" /\ k \in Keys(v)
    THEN [exc |-> NoExc, v |-> Lookup(v, k)]
    ELSE [exc |-> Exc("KeyError", KeyRepr(k)), v |-> PyNone]

\* v[k] for a value decoded from JSON
py_getitem(v, k) ==
    IF v.t = "dict"
    THEN IF k \in Keys(v)
         THEN [exc |-> NoExc, v |-> Lookup(v, k)]
         ELSE [exc |-> Exc("KeyError", KeyRepr(k)), v |-> PyNone]
    ELSE [exc |-> Exc("TypeError", "not subscriptable with a str"), v |-> PyNone]

\* d.get(k): a missing key gives None, whatever default was meant
dict_get_no_default(d, k, default) ==
    IF d.t # "dict"
    THEN [exc |-> Exc("AttributeError", "object has no attribute 'get'"), v |-> PyNone]
    ELSE IF k \in Keys(d)
         THEN [exc |-> NoExc, v |-> Lookup(d, k)]
         ELSE [exc |-> NoExc, v |-> PyNone]

\* d.get(k, default) on the event; AttributeError when the event is no dict
dict_get(d, k, default) ==
    IF d.t # "dict"
    THEN [exc |-> Exc("AttributeError", "object has no attribute 'get'"), v |-> PyNone]
    ELSE IF k \in Keys(d)
         THEN [exc |-> NoExc, v |-> Lookup(d, k)]
         ELSE [exc |-> NoExc, v |-> default]

---------------------------------------------------------------------------
(* The collaborators: clock, environment, identifier source, observability *)
(* sink (logger, metrics, tracer) and the DynamoDB client.                 *)

\* time.time(), in microseconds since the invocation began
time_time(st) == st.clock

\* (later - earlier) * 1000: a duration in milliseconds
duration_ms(later, earlier) == PyFloat(later - earlier)

\* os.environ.get("TABLE_NAME")
os_environ_get(st, name) == st.env.environ[name]

\* a generator that returns the same identifier on every call
uuid4_repeating(n) == "uuid-1"

\* str(uuid.uuid4()): an identifier no earlier call returned
uuid4(n) == "uuid-" \o IntToStr(n + 1)

\* a call into the sink at call site `site`: it raises when the site is
\* among the failing ones, and has its effect otherwise
SinkCall(st, site, done) ==
    IF Raised(st) THEN st
    ELSE IF site \in st.env.fail
         THEN Raise(Emit(st, [k |-> "sink_raised", site |-> site]), Exc("SinkError", site))
         ELSE done

logger_log(st, site, level, msg, extra) ==
    SinkCall(st, site, Emit(st, [k |-> "log", site |-> site, level |-> level, msg |-> msg,
                                 extra |-> extra, keys |-> st.loggerKeys]))
logger_info(st, site, msg, extra) == logger_log(st, site, "INFO", msg, extra)
\* an error report written at INFO level
logger_error_as_info(st, site, msg, extra) == logger_log(st, site, "INFO", msg, extra)
logger_error(st, site, msg, extra) == logger_log(st, site, "ERROR", msg, extra)
\* logger.exception: an ERROR record carrying the traceback
logger_exception(st, site, msg, extra) ==
    logger_log(st, site, "ERROR", msg, extra \o << <<"exception", PyStr("traceback")>> >>)

\* logger.append_keys(**kw): the keys stay on the logger
logger_append_keys(st, site, kw) ==
    SinkCall(st, site, [Emit(st, [k |-> "append_keys", site |-> site, kw |-> kw])
                           EXCEPT !.loggerKeys = kw @@ @])

metrics_add_metric(st, site, name, unit, value) ==
    SinkCall(st, site, Emit(st, [k |-> "metric", site |-> site, name |-> name,
                                 unit |-> unit, value |-> value]))
metrics_add_dimension(st, site, name, value) ==
    SinkCall(st, site, Emit(st, [k |-> "dimension", site |-> site, name |-> name,
                                 dvalue |-> value]))
tracer_put_annotation(st, site, key, value) ==
    SinkCall(st, site, Emit(st, [k |-> "annotation", site |-> site, key |-> key,
                                 avalue |-> value]))
tracer_put_metadata(st, site, key, value) ==
    SinkCall(st, site, Emit(st, [k |-> "metadata", site |-> site, key |-> key,
                                 mvalue |-> value]))

\* the ValidationException DynamoDB raises for an empty key value
EmptyKeyError ==
    "One or more parameter values are not valid. The AttributeValue for a key attribute cannot contain an empty string value. Key: id"

\* a put that leaves an item already stored under the same id in place
put_item_keeping(st, TableName, Item) ==
    IF Raised(st) THEN st
    ELSE LET called == [Emit(st, [k |-> "put_item", TableName |-> TableName, Item |-> Item])
                            EXCEPT !.clock = @ + st.env.tStore]
         IN  IF st.env.store # "ok" THEN Raise(called, Exc("ClientError", st.env.store))
             ELSE IF Item.id.S = "" THEN Raise(called, Exc("ClientError", EmptyKeyError))
             ELSE [called EXCEPT !.table = @ @@ (Item.id.S :> Item)]

\* dynamodb_client.put_item(TableName, Item): the table is keyed by id, so
\* a put replaces the item of the same id; DynamoDB refuses an empty string
\* as the value of a key attribute
put_item(st, TableName, Item) ==
    IF Raised(st) THEN st
    ELSE LET called == [Emit(st, [k |-> "put_item", TableName |-> TableName, Item |-> Item])
                            EXCEPT !.clock = @ + st.env.tStore]
         IN  IF st.env.store # "ok" THEN Raise(called, Exc("ClientError", st.env.store))
             ELSE IF Item.id.S = "" THEN Raise(called, Exc("ClientError", EmptyKeyError))
             ELSE [called EXCEPT !.table = (Item.id.S :> Item) @@ @]

\* dynamodb_client.describe_table(TableName)
describe_table(st, TableName) ==
    IF Raised(st) THEN st
    ELSE LET called == [Emit(st, [k |-> "describe_table", TableName |-> TableName])
                            EXCEPT !.clock = @ + st.env.tStore]
         IN  IF st.env.store = "ok"
             THEN called
             ELSE Raise(called, Exc("ClientError", st.env.store))

---------------------------------------------------------------------------
(* lambda/apigw-handler/index.py                                           *)

APP_VERSION == "1.0.0"

JsonHeaders == ("Content-Type" :> "application/json")

\* a function's result: the execution state it leaves and the value it
\* returns (the value means nothing while an exception is in flight)
Returns(st, ret) == [st |-> st, ret |-> ret]
NoValue == PyNone

\* a probe without its except clause: the exception of describe_table goes on
probe_outcome_raising(probed, start_time) ==
    IF ~Raised(probed)
    THEN Returns(probed, [is_healthy |-> TRUE,
                          latency_ms |-> duration_ms(time_time(probed), start_time),
                          error_msg |-> PyNone])
    ELSE Returns(probed, NoValue)

\* lines 256-261: the tuple check_dynamodb_health returns once
\* describe_table has returned or raised
probe_outcome(probed, start_time) ==
    IF ~Raised(probed)
    THEN Returns(probed, [is_healthy |-> TRUE,
                          latency_ms |-> duration_ms(time_time(probed), start_time),
                          error_msg |-> PyNone])
    ELSE Returns(Catch(probed), [is_healthy |-> FALSE,
                                 latency_ms |-> duration_ms(time_time(probed), start_time),
                                 error_msg |-> PyStr(probed.exc.msg)])

\* a probe that tests the table by writing a record to it
check_dynamodb_health_writing(st) ==
    IF Raised(st) THEN Returns(st, NoValue)
    ELSE probe_outcome(
             put_item(st, os_environ_get(st, "TABLE_NAME"),
                      [year |-> [N |-> "0"], title |-> [S |-> "probe"],
                       id |-> [S |-> "health-probe"]]),
             time_time(st))

\* check_dynamodb_health() -> (is_healthy, latency_ms, error_msg)
check_dynamodb_health(st) ==
    IF Raised(st) THEN Returns(st, NoValue)
    ELSE probe_outcome(describe_table(st, os_environ_get(st, "TABLE_NAME")), time_time(st))

\* the healthy response_body without its version entry
HealthyBody_unversioned(timestamp, latency_ms, table_name) ==
    PyDict(<< <<"status", PyStr("healthy")>>,
              <<"timestamp", PyStr(timestamp)>>,
              <<"checks", PyDict(<< <<"dynamodb", PyDict(<<
                    <<"status", PyStr("healthy")>>,
                    <<"latency_ms", round2(latency_ms)>>,
                    <<"table_name", table_name>> >>)>> >>)>> >>)

\* the response_body of a passed health check (lines 168-179)
HealthyBody(timestamp, latency_ms, table_name) ==
    PyDict(<< <<"status", PyStr("healthy")>>,
              <<"timestamp", PyStr(timestamp)>>,
              <<"checks", PyDict(<< <<"dynamodb", PyDict(<<
                    <<"status", PyStr("healthy")>>,
                    <<"latency_ms", round2(latency_ms)>>,
                    <<"table_name", table_name>> >>)>> >>)>>,
              <<"version", PyStr(APP_VERSION)>> >>)

\* the response_body of a failed health check (lines 183-194)
UnhealthyBody(timestamp, error_msg, table_name) ==
    PyDict(<< <<"status", PyStr("unhealthy")>>,
              <<"timestamp", PyStr(timestamp)>>,
              <<"checks", PyDict(<< <<"dynamodb", PyDict(<<
                    <<"status", PyStr("unhealthy")>>,
                    <<"error", error_msg>>,
                    <<"table_name", table_name>> >>)>> >>)>>,
              <<"version", PyStr(APP_VERSION)>> >>)

\* a health handler that answers 200 whatever the probe found
HealthStatusCode_always200(is_healthy) == 200

\* the status code the health handler derives from the probe (lines 180, 195)
HealthStatusCode(is_healthy) == IF is_healthy THEN 200 ELSE 503

\* the dict returned at lines 198-202
HealthResponse(status_code, response_body) ==
    [statusCode |-> status_code, headers |-> JsonHeaders, body |-> json_dumps(response_body)]

\* lines 164-202: the report made from the probe's result h
health_report(st, h, table_name, timestamp) ==
    IF Raised(st) THEN Returns(st, NoValue)
    ELSE IF h.is_healthy
    THEN Returns(logger_info(st, "L181", "Health check passed",
                             << <<"latency_ms", round2(h.latency_ms)>> >>),
                 HealthResponse(HealthStatusCode(TRUE),
                                HealthyBody(timestamp, h.latency_ms, table_name)))
    ELSE Returns(logger_error(st, "L196", "Health check failed",
                              << <<"error", h.error_msg>> >>),
                 HealthResponse(HealthStatusCode(FALSE),
                                UnhealthyBody(timestamp, h.error_msg, table_name)))

\* lines 162-165, given the result of check_dynamodb_health
health_checked(chk, table_name, timestamp) ==
    health_report(chk.st, chk.ret, table_name, timestamp)

\* handle_health_check()
handle_health_check(st) ==
    IF Raised(st) THEN Returns(st, NoValue)
    ELSE health_checked(
             check_dynamodb_health(logger_info(st, "L160", "Performing health check", <<>>)),
             os_environ_get(st, "TABLE_NAME"),
             st.env.utcnow \o "Z")

\* an Item whose year and title attributes are exchanged
DynamoItem_swapped(item) ==
    [year |-> [N |-> item.title], title |-> [S |-> item.year], id |-> [S |-> item.id]]

\* the Item argument of put_item (lines 219-223)
DynamoItem(item) ==
    [year |-> [N |-> item.year], title |-> [S |-> item.title], id |-> [S |-> item.id]]

\* a write that measures and logs but leaves the trace segment bare
write_recorded_untraced(st, item, tbl, start_time) ==
    IF Raised(st) THEN st
    ELSE
    LET dur == duration_ms(time_time(st), start_time)
        s3 == metrics_add_metric(st, "L228", "DynamoDBLatency", "Milliseconds", dur)
        s4 == metrics_add_dimension(s3, "L229", "operation", "put_item")
        s5 == metrics_add_dimension(s4, "L230", "table", py_str(tbl))
    IN  logger_info(s5, "L236", "DynamoDB write successful",
                    << <<"duration_ms", round2(dur)>> >>)

\* lines 226-238: what write_to_dynamodb records once put_item has returned
write_recorded(st, item, tbl, start_time) ==
    IF Raised(st) THEN st
    ELSE
    LET dur == duration_ms(time_time(st), start_time)
        s3 == metrics_add_metric(st, "L228", "DynamoDBLatency", "Milliseconds", dur)
        s4 == metrics_add_dimension(s3, "L229", "operation", "put_item")
        s5 == metrics_add_dimension(s4, "L230", "table", py_str(tbl))
        s6 == tracer_put_annotation(s5, "L232", "table_name", tbl)
        s7 == tracer_put_annotation(s6, "L233", "operation", PyStr("put_item"))
        s8 == tracer_put_metadata(s7, "L234", "item_id", PyStr(item.id))
    IN  logger_info(s8, "L236", "DynamoDB write successful",
                    << <<"duration_ms", round2(dur)>> >>)

\* an except block that logs and records the failure but does not re-raise
write_except_swallowing(st, start_time) ==
    IF ~Raised(st) THEN st
    ELSE tracer_put_metadata(
             logger_exception(Catch(st), "L242", "DynamoDB write failed", <<>>),
             "L245", "error", PyStr(st.exc.msg))

\* lines 240-246: except Exception as e: log, record, re-raise
write_except(st, start_time) ==
    IF ~Raised(st) THEN st
    ELSE
    LET c1 == logger_exception(Catch(st), "L242", "DynamoDB write failed",
                  << <<"duration_ms", round2(duration_ms(time_time(st), start_time))>> >>)
        c2 == tracer_put_metadata(c1, "L245", "error", PyStr(st.exc.msg))
    IN  Raise(c2, st.exc)

\* lines 216-246: the try statement of write_to_dynamodb
write_try(st, item, tbl, start_time) ==
    IF Raised(st) THEN st
    ELSE write_except(
             write_recorded(put_item(st, tbl, DynamoItem(item)), item, tbl, start_time),
             start_time)

\* write_to_dynamodb(item)
write_to_dynamodb(st, item) ==
    IF Raised(st) THEN st
    ELSE write_try(
             logger_info(st, "L211", "Writing to DynamoDB",
                         << <<"table_name", os_environ_get(st, "TABLE_NAME")>>,
                            <<"operation", PyStr("put_item")>> >>),
             item, os_environ_get(st, "TABLE_NAME"), time_time(st))

\* the dicts handle_post_request returns
SuccessResponse ==
    [statusCode |-> 200, headers |-> JsonHeaders,
     body |-> json_dumps(PyDict(<< <<"message", PyStr("Successfully inserted data!")>> >>))]
\* an answer to an undecodable body with 422 Unprocessable Entity
InvalidJsonResponse_422 ==
    [statusCode |-> 422, headers |-> JsonHeaders,
     body |-> json_dumps(PyDict(<< <<"message", PyStr("Invalid JSON in request body")>> >>))]
InvalidJsonResponse ==
    [statusCode |-> 400, headers |-> JsonHeaders,
     body |-> json_dumps(PyDict(<< <<"message", PyStr("Invalid JSON in request body")>> >>))]
MissingFieldResponse(e) ==
    [statusCode |-> 400, headers |-> JsonHeaders,
     body |-> json_dumps(PyDict(<< <<"message",
                  PyStr("Missing required field: " \o e.msg)>> >>))]
DatabaseFailedResponse ==
    [statusCode |-> 500, headers |-> JsonHeaders,
     body |-> json_dumps(PyDict(<< <<"message", PyStr("Database operation failed")>> >>))]

\* the default record of a request without a payload (lines 116-118)
DefaultItem(n) == [year |-> "2012", title |-> "The Amazing Spider-Man 2", id |-> uuid4(n)]

\* the three fields read in the order id, title, year
read_fields_id_first(st, item) ==
    IF Raised(st) THEN Returns(st, NoValue)
    ELSE
    LET y == py_getitem(item, "year")
        ti == py_getitem(item, "title")
        i == py_getitem(item, "id")
    IN  IF i.exc # NoExc THEN Returns(Raise(st, i.exc), NoValue)
        ELSE IF ti.exc # NoExc THEN Returns(Raise(st, ti.exc), NoValue)
        ELSE IF y.exc # NoExc THEN Returns(Raise(st, y.exc), NoValue)
        ELSE Returns(st, [year |-> py_str(y.v), title |-> py_str(ti.v), id |-> py_str(i.v)])

\* lines 111-113: year, title and id are read in this order and turned
\* into strings; the first missing one raises
read_fields(st, item) ==
    IF Raised(st) THEN Returns(st, NoValue)
    ELSE
    LET y == py_getitem(item, "year")
        ti == py_getitem(item, "title")
        i == py_getitem(item, "id")
    IN  IF y.exc # NoExc THEN Returns(Raise(st, y.exc), NoValue)
        ELSE IF ti.exc # NoExc THEN Returns(Raise(st, ti.exc), NoValue)
        ELSE IF i.exc # NoExc THEN Returns(Raise(st, i.exc), NoValue)
        ELSE Returns(st, [year |-> py_str(y.v), title |-> py_str(ti.v), id |-> py_str(i.v)])

\* lines 109-113, given the decoder's verdict on the body
read_parsed(st, parsed) ==
    IF ~parsed.ok
    THEN Returns(Raise(st, Exc("JSONDecodeError", "Expecting value")), NoValue)
    ELSE read_fields(logger_info(st, "L110", "Received payload", << <<"item", parsed.v>> >>),
                     parsed.v)

\* lines 115-118: no payload, use the defaults and a fresh identifier
read_defaults(st) ==
    IF Raised(st) THEN Returns(st, NoValue)
    ELSE Returns([st EXCEPT !.uuidCount = @ + 1], DefaultItem(st.uuidCount))

\* lines 108-118: the record to write
read_item(st, body) ==
    IF py_truthy(body)
    THEN read_parsed(st, json_loads(body.s))
    ELSE read_defaults(
             logger_info(st, "L115", "Received request without a payload, using defaults", <<>>))

\* lines 120-132: write the record and answer 200
post_write(rd) == write_to_dynamodb(rd.st, rd.ret)

\* an except clause that puts the exception's text into the 500 body
post_except_leaking(st) ==
    IF ~Raised(st) THEN Returns(st, SuccessResponse)
    ELSE IF st.exc.type = "JSONDecodeError"
    THEN Returns(logger_error(Catch(st), "L135", "Invalid JSON in request body",
                              << <<"error", PyStr(st.exc.msg)>> >>),
                 InvalidJsonResponse)
    ELSE IF st.exc.type = "KeyError"
    THEN Returns(logger_error(Catch(st), "L142", "Missing required field",
                              << <<"field", PyStr(st.exc.msg)>> >>),
                 MissingFieldResponse(st.exc))
    ELSE Returns(logger_exception(Catch(st), "L149", "Error writing to DynamoDB", <<>>),
                 [statusCode |-> 500, headers |-> JsonHeaders,
                  body |-> json_dumps(PyDict(<< <<"message", PyStr(st.exc.msg)>> >>))])

\* lines 127-154: the response once the try body has ended
post_except(st) ==
    IF ~Raised(st) THEN Returns(st, SuccessResponse)
    ELSE IF st.exc.type = "JSONDecodeError"
    THEN Returns(logger_error(Catch(st), "L135", "Invalid JSON in request body",
                              << <<"error", PyStr(st.exc.msg)>> >>),
                 InvalidJsonResponse)
    ELSE IF st.exc.type = "KeyError"
    THEN Returns(logger_error(Catch(st), "L142", "Missing required field",
                              << <<"field", PyStr(st.exc.msg)>> >>),
                 MissingFieldResponse(st.exc))
    ELSE Returns(logger_exception(Catch(st), "L149", "Error writing to DynamoDB", <<>>),
                 DatabaseFailedResponse)

\* lines 107-154: the try statement of handle_post_request
post_try(st, ev) ==
    IF Raised(st) THEN Returns(st, NoValue)
    ELSE post_except(post_write(read_item(st, dict_get(ev, "body", PyNone).v)))

\* handle_post_request(event)
handle_post_request(st, ev) ==
    IF Raised(st) THEN Returns(st, NoValue)
    ELSE post_try(
             logger_append_keys(st, "L105",
                 [table_name |-> os_environ_get(st, "TABLE_NAME"),
                  operation |-> PyStr("post_request")]),
             ev)

\* a routing that looks at the method only
Route_by_method(http_method, path) ==
    IF http_method = PyStr("GET") THEN "health"
    ELSE IF http_method = PyStr("POST") THEN "post"
    ELSE "not_found"

\* the routing decision of lines 41-45
Route(http_method, path) ==
    IF http_method = PyStr("GET") /\ path = PyStr("/health") THEN "health"
    ELSE IF http_method = PyStr("POST") /\ path = PyStr("/") THEN "post"
    ELSE "not_found"

\* a fallback that answers 405 Method Not Allowed
NotFoundResponse_405 ==
    [statusCode |-> 405, headers |-> JsonHeaders,
     body |-> json_dumps(PyDict(<< <<"message", PyStr("Not Found")>> >>))]

\* the dict built at lines 46-50
NotFoundResponse ==
    [statusCode |-> 404, headers |-> JsonHeaders,
     body |-> json_dumps(PyDict(<< <<"message", PyStr("Not Found")>> >>))]

\* the else branch of the routing, lines 46-53
not_found(st, path) ==
    IF Raised(st) THEN Returns(st, NoValue)
    ELSE
    LET s1 == metrics_add_metric(st, "L51", "ClientErrors", "Count", PyInt(1))
        s2 == metrics_add_dimension(s1, "L52", "endpoint", py_str(path))
    IN  Returns(metrics_add_dimension(s2, "L53", "status_code", "404"), NotFoundResponse)

\* lines 41-53: run what the request is routed to
dispatch(st, ev, http_method, path) ==
    IF Route(http_method, path) = "health" THEN handle_health_check(st)
    ELSE IF Route(http_method, path) = "post" THEN handle_post_request(st, ev)
    ELSE not_found(st, path)

\* an outcome counter that counts every status from 400 on as a server error
emit_outcome_coarse(st, status_code) ==
    IF status_code < 400
    THEN metrics_add_metric(st, "L70", "SuccessfulRequests", "Count", PyInt(1))
    ELSE metrics_add_dimension(
             metrics_add_metric(st, "L75", "ServerErrors", "Count", PyInt(1)),
             "L76", "status_code", IntToStr(status_code))

\* lines 69-76: the outcome counter chosen from the status code
emit_outcome(st, status_code) ==
    IF 200 <= status_code /\ status_code < 300
    THEN metrics_add_metric(st, "L70", "SuccessfulRequests", "Count", PyInt(1))
    ELSE IF 400 <= status_code /\ status_code < 500
    THEN metrics_add_dimension(
             metrics_add_metric(st, "L72", "ClientErrors", "Count", PyInt(1)),
             "L73", "status_code", IntToStr(status_code))
    ELSE IF status_code >= 500
    THEN metrics_add_dimension(
             metrics_add_metric(st, "L75", "ServerErrors", "Count", PyInt(1)),
             "L76", "status_code", IntToStr(status_code))
    ELSE st

\* lines 55-78: log and measure the response, then return it
handler_finish(st, response, http_method, path, start_time) ==
    IF Raised(st) THEN Returns(st, NoValue)
    ELSE
    LET dur == duration_ms(time_time(st), start_time)
        s3 == logger_info(st, "L59", "Request completed",
                  << <<"status_code", PyInt(response.statusCode)>>,
                     <<"duration_ms", round2(dur)>> >>)
        s4 == metrics_add_metric(s3, "L65", "RequestLatency", "Milliseconds", dur)
        s5 == metrics_add_dimension(s4, "L66", "endpoint", py_str(path))
        s6 == metrics_add_dimension(s5, "L67", "method", py_str(http_method))
    IN  Returns(emit_outcome(s6, response.statusCode), response)

\* lines 55-78, given what the routed code returned
handler_routed(routed, http_method, path, start_time) ==
    handler_finish(routed.st, routed.ret, http_method, path, start_time)

\* lines 38-78, with the method and path read from the event
handler_route(st, ev, http_method, path) ==
    handler_routed(
        dispatch(logger_info(st, "L38",
                     "Processing " \o py_str(http_method) \o " request to " \o py_str(path),
                     <<>>),
                 ev, http_method, path),
        http_method, path, time_time(st))

\* lines 33-78: the try body of handler
handler_try(st, ev) ==
    IF dict_get(ev, "httpMethod", PyStr("")).exc # NoExc
    THEN Returns(Raise(st, dict_get(ev, "httpMethod", PyStr("")).exc), NoValue)
    ELSE handler_route(st, ev, dict_get(ev, "httpMethod", PyStr("")).v,
                       dict_get(ev, "path", PyStr("/")).v)

\* a catch-all response built without headers
InternalErrorResponse_bare(ctx) ==
    [statusCode |-> 500,
     body |-> json_dumps(PyDict(<< <<"message", PyStr("Internal server error")>>,
                                   <<"correlation_id", PyStr(ctx.aws_request_id)>> >>))]

\* the dict returned by the catch-all, lines 90-97
InternalErrorResponse(ctx) ==
    [statusCode |-> 500, headers |-> JsonHeaders,
     body |-> json_dumps(PyDict(<< <<"message", PyStr("Internal server error")>>,
                                   <<"correlation_id", PyStr(ctx.aws_request_id)>> >>))]

\* a catch-all that logs, counts and then lets the exception go on
handler_end_reraising(st, ctx) ==
    [st |-> st, outcome |-> "raise", via |-> "except", exc |-> st.exc]

\* lines 90-97: the catch-all returns, unless its own calls raised
handler_end(st, ctx) ==
    IF ~Raised(st)
    THEN [st |-> st, outcome |-> "return", via |-> "except",
          response |-> InternalErrorResponse(ctx)]
    ELSE [st |-> st, outcome |-> "raise", via |-> "except", exc |-> st.exc]

\* lines 80-97: except Exception as e
handler_except(r, ctx, start_time) ==
    IF ~Raised(r.st)
    THEN [st |-> r.st, outcome |-> "return", via |-> "try", response |-> r.ret]
    ELSE
    LET c1 == logger_exception(Catch(r.st), "L82", "Error processing request",
                  << <<"duration_ms", round2(duration_ms(time_time(r.st), start_time))>> >>)
        c2 == metrics_add_metric(c1, "L87", "ServerErrors", "Count", PyInt(1))
    IN  handler_end(metrics_add_dimension(c2, "L88", "status_code", "500"), ctx)

\* handler(event, context): the state it leaves, and either the response
\* it returns or the exception it raises
handler(st, ev, ctx) == handler_except(handler_try(st, ev), ctx, time_time(st))

---------------------------------------------------------------------------
(* Inputs of an invocation.                                                *)

Methods == {PyStr("GET"), PyStr("POST"), PyStr("DELETE"), Absent}
Paths == {PyStr("/"), PyStr("/health"), PyStr("/unknown"), Absent}
\* event["body"]: a text, None, or no such key
Bodies == {PyStr(s) : s \in BodyTexts} \cup {PyNone, Absent}

\* the API Gateway proxy event: a dict that may lack any of its keys
Event(m, p, b) == PyDict(Member("httpMethod", m) \o Member("path", p) \o Member("body", b))

\* an event that is not a dict at all
MalformedEvents == {PyNone}

Contexts == {[aws_request_id |-> "req-1"], [aws_request_id |-> "req-2"]}

\* the call sites of logger, metrics and tracer
Sites ==
    {"L38", "L51", "L52", "L53", "L59", "L65", "L66", "L67", "L70", "L72", "L73",
     "L75", "L76", "L82", "L87", "L88", "L105", "L110", "L115", "L135", "L142",
     "L149", "L160", "L181", "L196", "L211", "L228", "L229", "L230", "L232",
     "L233", "L234", "L236", "L242", "L245"}

\* the store call succeeds, or raises with this message
StoreOutcomes == {"ok", "Requested resource not found"}
\* microseconds the store call takes
StoreElapsed == {0, 12346}
\* datetime.utcnow().isoformat()
Timestamps == {"2024-01-15T10:30:00.123456"}
Environ == [TABLE_NAME |-> PyStr("test_table")]

\* the sink behaves as its contract says: no call raises
ReliableEnvs ==
    [fail : {{}}, store : StoreOutcomes, tStore : StoreElapsed,
     utcnow : Timestamps, environ : {Environ}]

\* the call sites inside the except blocks of write_to_dynamodb,
\* handle_post_request and handler
HandlerSites == {"L242", "L149", "L82"}

\* a sink call may raise: at one call site, or at one call site and in the
\* except block that then runs
FaultSets ==
    {{}} \cup {{x} : x \in Sites} \cup {{x, y} : x \in Sites, y \in HandlerSites}

FaultyEnvs ==
    [fail : FaultSets, store : StoreOutcomes, tStore : {0},
     utcnow : Timestamps, environ : {Environ}]

\* the request bodies sent while the sink is faulty
FaultyBodies ==
    {Absent, PyStr("invalid json {"), PyStr("[]"),
     PyStr(json_dumps(Doc(PyInt(1999), PyStr("Dune"), PyStr("a")))),
     PyStr(json_dumps(Doc(Absent, PyStr("Dune"), PyStr("a"))))}

StoreCalls(tr) == {i \in 1..Len(tr) : tr[i].k \in {"put_item", "describe_table"}}
RaisedSites(tr) == {tr[i].site : i \in {j \in 1..Len(tr) : tr[j].k = "sink_raised"}}

\* an input the invocation never consulted takes its first value, so that
\* one run of the code is one transition
Consulted(r, ctx, e) ==
    /\ e.fail \subseteq RaisedSites(r.st.trace)
    /\ StoreCalls(r.st.trace) = {} => e.store = "ok" /\ e.tStore = 0
    /\ ~(r.outcome = "return" /\ r.via = "except") => ctx.aws_request_id = "req-1"

---------------------------------------------------------------------------
(* The state machine.                                                      *)

NoEnv == [fail |-> {}, store |-> "ok", tStore |-> 0, utcnow |-> "", environ |-> Environ]

Init ==
    /\ table = <<>>
    /\ uuidCount = 0
    /\ loggerKeys = <<>>
    /\ event = Absent
    /\ context = [aws_request_id |-> ""]
    /\ env = NoEnv
    /\ result = [outcome |-> "none"]
    /\ trace = <<>>

Invoke(ev, ctx, e) ==
    LET st0 == [trace |-> <<>>, exc |-> NoExc, table |-> table, uuidCount |-> uuidCount,
                loggerKeys |-> loggerKeys, clock |-> 0, env |-> e]
        r == handler(st0, ev, ctx)
    IN  /\ result.outcome = "none"
        /\ r.st.uuidCount <= MaxUuid
        /\ Consulted(r, ctx, e)
        /\ table' = r.st.table
        /\ uuidCount' = r.st.uuidCount
        /\ loggerKeys' = r.st.loggerKeys
        /\ event' = ev
        /\ context' = ctx
        /\ env' = e
        /\ result' = IF r.outcome = "return"
                     THEN [outcome |-> "return", via |-> r.via, response |-> r.response]
                     ELSE [outcome |-> "raise", via |-> r.via, exc |-> r.exc]
        /\ trace' = r.st.trace

\* GET /health
GetHealth ==
    \E ctx \in Contexts, e \in ReliableEnvs :
        Invoke(Event(PyStr("GET"), PyStr("/health"), Absent), ctx, e)

\* POST / with any body
PostItem ==
    \E b \in Bodies, ctx \in Contexts, e \in ReliableEnvs :
        Invoke(Event(PyStr("POST"), PyStr("/"), b), ctx, e)

\* any method and path, present or not, without a body
AnyRoute ==
    \E m \in Methods, p \in Paths, ctx \in Contexts, e \in ReliableEnvs :
        Invoke(Event(m, p, Absent), ctx, e)

\* an event that is no dict
Malformed ==
    \E ev \in MalformedEvents, ctx \in Contexts, e \in ReliableEnvs :
        Invoke(ev, ctx, e)

\* the runtime hands the outcome to the caller; the per-invocation values
\* are gone, the table and the module-level objects stay
Deliver ==
    /\ result.outcome # "none"
    /\ event' = Absent
    /\ context' = [aws_request_id |-> ""]
    /\ env' = NoEnv
    /\ result' = [outcome |-> "none"]
    /\ trace' = <<>>
    /\ UNCHANGED <<table, uuidCount, loggerKeys>>

Next == GetHealth \/ PostItem \/ AnyRoute \/ Malformed \/ Deliver

Spec == Init /\ [][Next]_vars

\* the same requests while log, metric and trace calls may raise
FaultyGetHealth ==
    \E ctx \in Contexts, e \in FaultyEnvs :
        Invoke(Event(PyStr("GET"), PyStr("/health"), Absent), ctx, e)

FaultyPostItem ==
    \E b \in FaultyBodies, ctx \in Contexts, e \in FaultyEnvs :
        Invoke(Event(PyStr("POST"), PyStr("/"), b), ctx, e)

FaultyNoRoute ==
    \E ctx \in Contexts, e \in FaultyEnvs :
        Invoke(Event(PyStr("GET"), PyStr("/unknown"), Absent), ctx, e)

FaultyMalformed ==
    \E ev \in MalformedEvents, ctx \in Contexts, e \in FaultyEnvs :
        Invoke(ev, ctx, e)

NextSink == FaultyGetHealth \/ FaultyPostItem \/ FaultyNoRoute \/ FaultyMalformed \/ Deliver

SpecSink == Init /\ [][NextSink]_vars

---------------------------------------------------------------------------
(* What a caller observes of one invocation: the event sent, the outcome,  *)
(* the calls recorded in the trace and the table.                          *)

Invoked == result.outcome # "none"
Returned == result.outcome = "return"

IsMapping == event.t = "dict"
ReqField(k) == IF IsMapping /\ k \in Keys(event) THEN Lookup(event, k) ELSE Absent
ReqMethod == ReqField("httpMethod")
ReqPath == ReqField("path")
ReqBody == ReqField("body")

\* the method and path the routing compares, a missing one replaced by its
\* default
RoutedMethod == IF ReqMethod = Absent THEN PyStr("") ELSE ReqMethod
RoutedPath == IF ReqPath = Absent THEN PyStr("/") ELSE ReqPath

IsGetHealth == Invoked /\ ReqMethod = PyStr("GET") /\ ReqPath = PyStr("/health")
IsPostRoot == Invoked /\ ReqMethod = PyStr("POST") /\ ReqPath = PyStr("/")
NoPayload == ReqBody \in {Absent, PyNone, PyStr("")}

StatusIs(code) == Returned /\ result.response.statusCode = code
BodyIs(text) == Returned /\ result.response.body = text

MessageText(msg) == "{\"message\": \"" \o msg \o "\"}"

Logged(site) == \E i \in 1..Len(trace) : trace[i].k = "log" /\ trace[i].site = site
HealthInvoked == Logged("L160")
InsertInvoked ==
    \E i \in 1..Len(trace) : trace[i].k = "append_keys" /\ trace[i].site = "L105"
PutCalls == {i \in 1..Len(trace) : trace[i].k = "put_item"}
StoreFails == env.store # "ok"

\* the body of a healthy report, as text
HealthyText(ts, latency, tbl) ==
    "{\"status\": \"healthy\", \"timestamp\": \"" \o ts \o "\", \"checks\": {\"dynamodb\": "
        \o "{\"status\": \"healthy\", \"latency_ms\": " \o latency
        \o ", \"table_name\": \"" \o tbl \o "\"}}, \"version\": \"1.0.0\"}"

\* the body of an unhealthy report, as text
UnhealthyText(ts, err, tbl) ==
    "{\"status\": \"unhealthy\", \"timestamp\": \"" \o ts \o "\", \"checks\": {\"dynamodb\": "
        \o "{\"status\": \"unhealthy\", \"error\": \"" \o err
        \o "\", \"table_name\": \"" \o tbl \o "\"}}, \"version\": \"1.0.0\"}"

\* non-negative latencies with at most two decimals, in microseconds
Latencies == {10 * n : n \in 0..2000}

IsHealthyReport ==
    \E ts \in Timestamps, us \in Latencies :
        BodyIs(HealthyText(ts \o "Z", FloatRepr(us), "test_table"))

IsUnhealthyReport ==
    \E ts \in Timestamps, err \in StoreOutcomes \ {"ok", ""} :
        BodyIs(UnhealthyText(ts \o "Z", err, "test_table"))

\* a field value that is not empty: a number or a non-empty string
NonEmpty(v) == v.t = "int" \/ (v.t = "str" /\ v.s # "")
\* the text of a submitted year
YearText(y) == IF y.t = "int" THEN IntToStr(y.n) ELSE y.s

\* the request carries the JSON text of document d
Carries(d) == ReqBody = PyStr(json_dumps(d))

\* the texts of the requests that are JSON by RFC 8259
ValidJsonTexts == {json_dumps(d) : d \in JsonDocs}

RequiredFields == {"year", "title", "id"}

---------------------------------------------------------------------------
(* The claims.                                                             *)

\* the calls the catch-all block itself makes (lines 82-88)
CatchAllSites == {"L82", "L87", "L88"}

\* C1: handler is total. Whatever the method, path and body, and whatever
\* the store calls and the steps inside routing and the two handlers do
\* (return or raise, log/metric/trace calls included), handler returns a
\* response and does not raise; when an exception escaped routing or a
\* handler, the response is 500 with body {"message": "Internal server
\* error", "correlation_id": c}, c being context.aws_request_id.
C1_HandlerTotal ==
    (Invoked /\ RaisedSites(trace) \cap CatchAllSites = {}) =>
        /\ Returned
        /\ result.via = "except" =>
              /\ StatusIs(500)
              /\ BodyIs("{\"message\": \"Internal server error\", \"correlation_id\": \""
                            \o context.aws_request_id \o "\"}")

\* a POST / whose log call at line 149 raised inside the insert handler's
\* own except block, answered by the catch-all for request req-2
C1_Witness ==
    /\ IsPostRoot
    /\ "L149" \in RaisedSites(trace)
    /\ Returned /\ result.via = "except"
    /\ context.aws_request_id = "req-2"
    /\ StatusIs(500)

\* C2: routing is by exact match. GET /health runs the health handler,
\* POST / runs the insert handler, and every other (method, path) pair is
\* answered 404 {"message": "Not Found"} with neither handler run and no
\* store operation.
C2_ExactRouting ==
    (Invoked /\ IsMapping) =>
        IF RoutedMethod = PyStr("GET") /\ RoutedPath = PyStr("/health")
        THEN HealthInvoked /\ ~InsertInvoked /\ ~StatusIs(404)
        ELSE IF RoutedMethod = PyStr("POST") /\ RoutedPath = PyStr("/")
        THEN InsertInvoked /\ ~HealthInvoked /\ ~StatusIs(404)
        ELSE /\ StatusIs(404)
             /\ BodyIs(MessageText("Not Found"))
             /\ ~HealthInvoked /\ ~InsertInvoked
             /\ StoreCalls(trace) = {}

\* POST /health, a pair that shares its method with one route and its path
\* with the other, answered 404
C2_Witness ==
    /\ Invoked
    /\ ReqMethod = PyStr("POST") /\ ReqPath = PyStr("/health")
    /\ StatusIs(404)

\* C3: a POST / whose body is a JSON object with non-empty year, title and
\* id, the store accepting the put, is answered 200 with a message, and
\* the table then holds under that id exactly the submitted year (as the N
\* attribute), title and id.
C3_ValidPostStored ==
    \A d \in ObjectDocs :
        (/\ IsPostRoot /\ Carries(d) /\ ~StoreFails
         /\ Keys(d) = RequiredFields
         /\ \A k \in RequiredFields : NonEmpty(Lookup(d, k)))
        => /\ StatusIs(200)
           /\ BodyIs(MessageText("Successfully inserted data!"))
           /\ Lookup(d, "id").s \in DOMAIN table
           /\ table[Lookup(d, "id").s] =
                  [year |-> [N |-> YearText(Lookup(d, "year"))],
                   title |-> [S |-> Lookup(d, "title").s],
                   id |-> [S |-> Lookup(d, "id").s]]

\* the document {"year": 1999, "title": "Dune", "id": "a"} was posted and
\* stored
C3_Witness ==
    /\ IsPostRoot /\ Carries(Doc(PyInt(1999), PyStr("Dune"), PyStr("a")))
    /\ StatusIs(200)
    /\ "a" \in DOMAIN table /\ table["a"].year.N = "1999"

\* C4 (as the specification states it): every POST / whose body is present
\* and is not valid JSON is answered 400 {"message": "Invalid JSON in
\* request body"}.
C4_InvalidJsonRejected ==
    (/\ IsPostRoot /\ ReqBody.t = "str" /\ ReqBody.s # ""
     /\ ReqBody.s \notin ValidJsonTexts)
    => StatusIs(400) /\ BodyIs(MessageText("Invalid JSON in request body"))

\* C5 (as the specification states it): every POST / whose body is a JSON
\* object lacking one of year, title, id is answered 400 with body
\* {"message": "Missing required field: <field name>"}, the name being
\* that of a missing field.
C5_MissingFieldNamed ==
    \A d \in ObjectDocs :
        (IsPostRoot /\ Carries(d) /\ RequiredFields \ Keys(d) # {})
        => /\ StatusIs(400)
           /\ \E f \in RequiredFields \ Keys(d) :
                  BodyIs(MessageText("Missing required field: " \o f))

\* C6: a POST / with an absent or empty body, the store accepting the put,
\* is answered 200 "Successfully inserted data!" and writes exactly one
\* record: year "2012", title "The Amazing Spider-Man 2", under an id the
\* table did not hold before; every other record stays, so n such calls
\* add n records.
C6_DefaultsInserted ==
    [][(~Invoked /\ IsPostRoot' /\ NoPayload' /\ ~StoreFails')
       => /\ StatusIs(200)'
          /\ BodyIs(MessageText("Successfully inserted data!"))'
          /\ Cardinality(PutCalls') = 1
          /\ \E fresh \in DOMAIN table' \ DOMAIN table :
                /\ DOMAIN table' = DOMAIN table \cup {fresh}
                /\ table'[fresh] = [year |-> [N |-> "2012"],
                                    title |-> [S |-> "The Amazing Spider-Man 2"],
                                    id |-> [S |-> fresh]]
                /\ \A k \in DOMAIN table : table'[k] = table[k]
      ]_vars

\* the second POST / without a body has returned 200, and the table holds
\* the two generated records
C6_Witness ==
    /\ IsPostRoot /\ NoPayload /\ StatusIs(200)
    /\ uuidCount = 2
    /\ Cardinality({k \in DOMAIN table : table[k].title.S = "The Amazing Spider-Man 2"}) = 2

\* C7: a POST / that passes validation (no payload, or an object with all
\* three fields) whose put fails is answered 500 {"message": "Database
\* operation failed"}, and put_item was called exactly once.
C7_PutFailure ==
    (/\ IsPostRoot /\ StoreFails
     /\ \/ NoPayload
        \/ \E d \in ObjectDocs : Carries(d) /\ Keys(d) = RequiredFields)
    => /\ StatusIs(500)
       /\ BodyIs(MessageText("Database operation failed"))
       /\ Cardinality(PutCalls) = 1

\* a full document was posted, the put failed, the answer is 500
C7_Witness ==
    /\ IsPostRoot /\ StoreFails
    /\ Carries(Doc(PyStr("2012"), PyStr("Dune"), PyStr("a")))
    /\ StatusIs(500) /\ Cardinality(PutCalls) = 1

\* C8: a GET /health whose describe probe succeeds is answered 200 with
\* status "healthy", checks.dynamodb.status "healthy", a latency_ms >= 0,
\* the table name, a timestamp and version "1.0.0".
C8_HealthyReport ==
    (IsGetHealth /\ ~StoreFails) => StatusIs(200) /\ IsHealthyReport

\* a healthy report whose probe took measurable time
C8_Witness ==
    /\ IsGetHealth /\ ~StoreFails /\ env.tStore > 0
    /\ StatusIs(200) /\ IsHealthyReport

\* C9: a GET /health whose describe probe raises is answered by the health
\* handler itself: 503, status "unhealthy", checks.dynamodb.status
\* "unhealthy" and a non-empty checks.dynamodb.error; and every health
\* answer is 200 exactly when the report is healthy, 503 exactly when it is
\* unhealthy.
C9_UnhealthyReport ==
    IsGetHealth =>
        /\ Returned /\ result.via = "try"
        /\ StoreFails => StatusIs(503) /\ IsUnhealthyReport
        /\ StatusIs(200) <=> IsHealthyReport
        /\ StatusIs(503) <=> IsUnhealthyReport
        /\ IsHealthyReport \/ IsUnhealthyReport

\* the probe raised and the answer is 503 carrying the store's error text
C9_Witness ==
    /\ IsGetHealth /\ StoreFails
    /\ StatusIs(503)
    /\ BodyIs(UnhealthyText("2024-01-15T10:30:00.123456Z", env.store, "test_table"))

\* C10: every response handler returns, on every path (200, 400, 404, the
\* insert handler's 500, 503 and the catch-all 500), carries the header
\* Content-Type: application/json.
C10_JsonContentType ==
    Returned =>
        /\ "headers" \in DOMAIN result.response
        /\ "Content-Type" \in DOMAIN result.response.headers
        /\ result.response.headers["Content-Type"] = "application/json"

\* the catch-all answered an event that is no mapping, with the header
C10_Witness ==
    /\ Returned /\ result.via = "except" /\ ~IsMapping
    /\ StatusIs(500)
    /\ result.response.headers["Content-Type"] = "application/json"

\* C11: the status code of every response handler returns is one of 200,
\* 400, 404, 500, 503.
C11_StatusCodes ==
    Returned => result.response.statusCode \in {200, 400, 404, 500, 503}

\* an invocation answered 404, the one code only the routing fallback gives
C11_Witness ==
    /\ Invoked /\ IsMapping /\ RoutedMethod = PyStr("DELETE")
    /\ StatusIs(404)

\* the record a successful POST / stores: the submitted fields as text, or
\* the defaults under the id that was generated
StoredBy(d) ==
    [year |-> [N |-> YearText(Lookup(d, "year"))],
     title |-> [S |-> py_str(Lookup(d, "title"))],
     id |-> [S |-> Lookup(d, "id").s]]

\* C12: last write wins. A successful POST / leaves under its id exactly
\* the year and title it submitted, whatever the table held under that id
\* before, and leaves every other record as it was; an invocation that is
\* not a successful POST / leaves the whole table as it was. So after any
\* sequence of requests each id holds the values of the most recent
\* successful request with that id.
C12_LastWriteWins ==
    [][~Invoked /\ Invoked' =>
         /\ \A d \in FullDocs :
               (IsPostRoot' /\ Carries(d)' /\ StatusIs(200)') =>
                   /\ DOMAIN table' = DOMAIN table \cup {Lookup(d, "id").s}
                   /\ table'[Lookup(d, "id").s] = StoredBy(d)
                   /\ \A k \in DOMAIN table \ {Lookup(d, "id").s} : table'[k] = table[k]
         /\ ~StatusIs(200)' => table' = table
         /\ ~(ReqMethod' = PyStr("POST")) => table' = table
      ]_vars

\* id "a" was written with year 1999 and then with year "2012": the table
\* holds one record under "a", with the second year
C12_Witness ==
    /\ IsPostRoot /\ Carries(Doc(PyStr("2012"), PyStr("Dune"), PyStr("a")))
    /\ StatusIs(200)
    /\ table["a"].year.N = "2012"
    /\ \E k \in DOMAIN table : k # "a"

\* the messages of the error responses
ErrorMessages ==
    {"Not Found", "Invalid JSON in request body", "Database operation failed"}
        \cup {"Missing required field: '" \o f \o "'" : f \in RequiredFields}

\* a body that is {"message": m} and nothing else, m one of the fixed
\* messages
IsMessageBody == \E msg \in ErrorMessages : BodyIs(MessageText(msg))

\* the body of the catch-all: message and correlation_id
IsCatchAllBody ==
    BodyIs("{\"message\": \"Internal server error\", \"correlation_id\": \""
               \o context.aws_request_id \o "\"}")

\* C13 (as the specification states it): every response with status 400,
\* 404, 500 or 503 has a body {"message": <string>}, with a correlation_id
\* in addition only in the catch-all 500, and carries no store error text
\* and no table name.
C13_ErrorBodiesAreMessages ==
    (Returned /\ result.response.statusCode \in {400, 404, 500, 503}) =>
        \/ result.via = "try" /\ IsMessageBody
        \/ result.via = "except" /\ IsCatchAllBody

\* C13 (amended): every response with status 400, 404 or 500 has a body
\* {"message": <string>} with one of the fixed messages, with a
\* correlation_id in addition exactly in the catch-all 500, and so carries
\* no store error text and no table name; the 503 response is the health
\* report, whose checks.dynamodb carries the store's error text and the
\* table name.
C13_ErrorBodiesExceptHealth ==
    /\ (Returned /\ result.response.statusCode \in {400, 404, 500}) =>
          \/ result.via = "try" /\ IsMessageBody
          \/ result.via = "except" /\ StatusIs(500) /\ IsCatchAllBody
    /\ StatusIs(503) => IsGetHealth /\ IsUnhealthyReport

\* a put that the store refused, answered with the fixed message and not
\* with the store's text
C13_Witness ==
    /\ IsPostRoot /\ StoreFails /\ Cardinality(PutCalls) = 1
    /\ BodyIs(MessageText("Database operation failed"))
    /\ result.via = "try"

OutcomeCounters == {"SuccessfulRequests", "ClientErrors", "ServerErrors"}

\* the positions in the trace of the emitted metrics with a name in names
MetricsNamed(names) ==
    {i \in 1..Len(trace) : trace[i].k = "metric" /\ trace[i].name \in names}

\* the counter of a status code's class
CounterOf(code) ==
    IF 200 <= code /\ code < 300 THEN "SuccessfulRequests"
    ELSE IF 400 <= code /\ code < 500 THEN "ClientErrors"
    ELSE "ServerErrors"

\* the values given to the dimension `name` in this invocation
DimensionValues(name) ==
    {trace[i].dvalue : i \in {j \in 1..Len(trace) :
                                 trace[j].k = "dimension" /\ trace[j].name = name}}

\* every emitted outcome counter is the one of the response's status class,
\* and the status_code tag, which the two error counters carry, is the
\* response's status code
CountersMatchResponse ==
    /\ \A i \in MetricsNamed(OutcomeCounters) :
          trace[i].name = CounterOf(result.response.statusCode)
    /\ MetricsNamed({"ClientErrors", "ServerErrors"}) # {} =>
          DimensionValues("status_code") = {IntToStr(result.response.statusCode)}
    /\ MetricsNamed({"ClientErrors", "ServerErrors"}) = {} =>
          DimensionValues("status_code") = {}

\* C14 (as the specification states it): in every invocation, whatever the
\* route and outcome, exactly one outcome counter is emitted in total, the
\* one of the response's status class, the two error counters tagged with
\* the response's status code.
C14_OneOutcomeCounter ==
    Returned =>
        /\ Cardinality(MetricsNamed(OutcomeCounters)) = 1
        /\ CountersMatchResponse

\* the log lines that carry both a status code and a duration
CompletionLogs ==
    {i \in 1..Len(trace) :
        /\ trace[i].k = "log"
        /\ \E a, b \in 1..Len(trace[i].extra) :
              trace[i].extra[a][1] = "status_code" /\ trace[i].extra[b][1] = "duration_ms"}

\* C15 (as the specification states it): in every invocation, whatever the
\* outcome, exactly one RequestLatency measurement tagged with endpoint and
\* method is emitted, and one log line carrying both the response's status
\* code and the duration.
C15_OneLatencyMeasurement ==
    Returned =>
        /\ Cardinality(MetricsNamed({"RequestLatency"})) = 1
        /\ DimensionValues("endpoint") # {} /\ DimensionValues("method") # {}
        /\ Cardinality(CompletionLogs) = 1

\* the call sites inside the two handlers and their helpers
RoutedSites ==
    {"L105", "L110", "L115", "L135", "L142", "L149", "L160", "L181", "L196", "L211",
     "L228", "L229", "L230", "L232", "L233", "L234", "L236", "L242", "L245"}

\* the positions in the trace of what the routed handler did
RoutedSteps ==
    {i \in 1..Len(trace) :
        \/ trace[i].k \in {"put_item", "describe_table"}
        \/ trace[i].site \in RoutedSites}

\* C16: within one invocation, RequestLatency and the outcome counters are
\* emitted only after everything the routed handler did, and each emitted
\* outcome counter has the status class, and the status_code tag, of the
\* response finally returned, the catch-all 500 included.
C16_MeasuredAfterHandler ==
    Returned =>
        /\ \A i \in MetricsNamed(OutcomeCounters \cup {"RequestLatency"}) :
              \A j \in RoutedSteps : j < i
        /\ MetricsNamed(OutcomeCounters) # {}
        /\ CountersMatchResponse

\* a failed health probe: the handler's steps, then RequestLatency, then
\* ServerErrors tagged 503
C16_Witness ==
    /\ IsGetHealth /\ StatusIs(503)
    /\ RoutedSteps # {}
    /\ MetricsNamed({"RequestLatency"}) # {}
    /\ MetricsNamed({"ServerErrors"}) # {}
    /\ DimensionValues("status_code") = {"503"}

\* a health report as a document, with the given members of
\* checks.dynamodb
ReportDoc(status, ts, members) ==
    PyDict(<< <<"status", PyStr(status)>>,
              <<"timestamp", PyStr(ts)>>,
              <<"checks", PyDict(<< <<"dynamodb", PyDict(members)>> >>)>>,
              <<"version", PyStr("1.0.0")>> >>)

\* seq with x put in as its i-th element
InsertAt(seq, i, x) == SubSeq(seq, 1, i - 1) \o <<x>> \o SubSeq(seq, i, Len(seq))

\* the unhealthy reports that also carry a non-negative latency_ms, at any
\* place among the members of checks.dynamodb
UnhealthyReportsWithLatency ==
    {ReportDoc("unhealthy", ts \o "Z",
               InsertAt(<< <<"status", PyStr("unhealthy")>>, <<"error", PyStr(err)>>,
                           <<"table_name", PyStr("test_table")>> >>,
                        at, <<"latency_ms", PyFloat(us)>>)) :
        ts \in Timestamps, err \in StoreOutcomes \ {"ok"}, at \in 1..4, us \in Latencies}

\* C17 (as the specification states it): the body of every health check
\* response, healthy or unhealthy, contains checks.dynamodb.latency_ms with
\* a non-negative value.
C17_LatencyAlwaysReported ==
    IsGetHealth =>
        \/ IsHealthyReport
        \/ \E doc \in UnhealthyReportsWithLatency : BodyIs(json_dumps(doc))

\* the text begins with '{' or '[': it is the text of an object or an
\* array, or the one invalid text of the model that opens with a brace
OpensContainer(text) ==
    \/ \E d \in JsonDocs : d.t \in {"dict", "list"} /\ text = json_dumps(d)
    \/ text = "{'year': 1999}"

\* C18 (as the specification states it): every POST / whose body is a
\* non-empty string that does not begin with '{' or '[' is answered with a
\* client error, 400 <= status < 500.
C18_ScalarsAreClientErrors ==
    (IsPostRoot /\ ReqBody.t = "str" /\ ReqBody.s # "" /\ ~OpensContainer(ReqBody.s))
    => /\ Returned
       /\ 400 <= result.response.statusCode /\ result.response.statusCode < 500

\* C19 (as the specification states it): put is never attempted with a
\* record whose id is absent or empty or whose year or title is absent; id
\* is non-empty whenever put is called.
C19_NoPutWithoutId ==
    \A i \in PutCalls :
        /\ DOMAIN trace[i].Item = {"year", "title", "id"}
        /\ trace[i].Item.id.S # ""

\* the keys this invocation itself appended to the logger before step i
OwnKeys(i) ==
    LET appended == {j \in 1..(i - 1) : trace[j].k = "append_keys"}
    IN  IF appended = {} THEN <<>>
        ELSE trace[CHOOSE j \in appended : \A h \in appended : h <= j].kw

\* C20 (as the specification states it): an invocation is independent of
\* the earlier ones; the key/value context attached to each of its log
\* lines is the one this invocation set, whatever ran before it in the
\* same process.
C20_IndependentInvocations ==
    \A i \in 1..Len(trace) :
        trace[i].k = "log" => trace[i].keys = OwnKeys(i)

\* the log lines of level ERROR
ErrorLogs == {i \in 1..Len(trace) : trace[i].k = "log" /\ trace[i].level = "ERROR"}

\* the invocation went through one of the handled error paths: invalid
\* JSON or a missing field (400), a failed put (500), a failed health probe
\* (503), an exception that reached the catch-all (500)
OnErrorPath == Returned /\ result.response.statusCode \in {400, 500, 503}

\* C21: no error is silently dropped. On every handled error path at least
\* one ERROR log line is emitted in the invocation, and the counter of the
\* error's class is emitted: ClientErrors for 4xx, ServerErrors for 5xx.
C21_ErrorsLoggedAndCounted ==
    OnErrorPath =>
        /\ ErrorLogs # {}
        /\ MetricsNamed({CounterOf(result.response.statusCode)}) # {}
        /\ CounterOf(result.response.statusCode) \in {"ClientErrors", "ServerErrors"}

\* a POST / with a text that is no JSON: 400, an ERROR line, ClientErrors
C21_Witness ==
    /\ IsPostRoot /\ ReqBody = PyStr("invalid json {")
    /\ StatusIs(400)
    /\ ErrorLogs # {}
    /\ MetricsNamed({"ClientErrors"}) # {}

\* the keys recorded on the trace segment by calls of the given kind
TraceKeys(kind) ==
    {trace[i].key : i \in {j \in 1..Len(trace) : trace[j].k = kind}}

\* C22 (as the specification states it): every write attempt emits one
\* DynamoDBLatency timer tagged with operation and table; a successful put
\* also the table_name and operation annotations and the item_id metadata,
\* a failed put the error metadata, the failure then being mapped to 500.
C22_EveryWriteTimed ==
    (Returned /\ PutCalls # {}) =>
        /\ Cardinality(MetricsNamed({"DynamoDBLatency"})) = 1
        /\ DimensionValues("operation") = {"put_item"}
        /\ DimensionValues("table") = {"test_table"}
        /\ StatusIs(200) =>
              /\ TraceKeys("annotation") = {"table_name", "operation"}
              /\ TraceKeys("metadata") = {"item_id"}
        /\ ~StatusIs(200) => StatusIs(500) /\ TraceKeys("metadata") = {"error"}

\* C22 (amended): every successful put emits one DynamoDBLatency timer
\* tagged with operation and table, the table_name and operation
\* annotations and the item_id metadata; a failed put emits no timer: it is
\* logged at ERROR level, the error metadata is recorded, and the failure
\* is then mapped to the 500 response.
C22_SuccessfulWriteTimed ==
    (Returned /\ PutCalls # {}) =>
        /\ StatusIs(200) =>
              /\ Cardinality(MetricsNamed({"DynamoDBLatency"})) = 1
              /\ DimensionValues("operation") = {"put_item"}
              /\ DimensionValues("table") = {"test_table"}
              /\ TraceKeys("annotation") = {"table_name", "operation"}
              /\ TraceKeys("metadata") = {"item_id"}
        /\ ~StatusIs(200) =>
              /\ StatusIs(500)
              /\ MetricsNamed({"DynamoDBLatency"}) = {}
              /\ TraceKeys("metadata") = {"error"}
              /\ Logged("L242")

\* a put the store refused: no timer, the error metadata, 500
C22_Witness ==
    /\ IsPostRoot /\ StoreFails /\ PutCalls # {}
    /\ MetricsNamed({"DynamoDBLatency"}) = {}
    /\ TraceKeys("metadata") = {"error"}
    /\ StatusIs(500)

\* what handler answers to the event ev from the present state when every
\* log, metric and trace call succeeds
ReliableAnswer(ev, ctx, e) ==
    handler([trace |-> <<>>, exc |-> NoExc, table |-> table, uuidCount |-> uuidCount,
             loggerKeys |-> loggerKeys, clock |-> 0, env |-> [e EXCEPT !.fail = {}]],
            ev, ctx).response

\* C23 (as the specification states it): the sink is fire-and-forget. The
\* status code and body of a response are those the request gets when
\* every log, metric and trace call succeeds, except that a failing call
\* may turn the response into the 500 carrying the correlation id; a sink
\* failure never yields {"message": "Database operation failed"}.
C23_SinkFireAndForget ==
    [][(~Invoked /\ Returned') =>
          \/ /\ result'.response.statusCode =
                    ReliableAnswer(event', context', env').statusCode
             /\ result'.response.body = ReliableAnswer(event', context', env').body
          \/ StatusIs(500)' /\ IsCatchAllBody'
      ]_vars

\* C24: every response to a POST / has status 200, 400 or 500 (never 404
\* or 503), and every response to a POST / whose body is present and is
\* not valid JSON has status 400 or 500.
C24_PostStatusCodes ==
    IsPostRoot =>
        /\ Returned
        /\ result.response.statusCode \in {200, 400, 500}
        /\ (ReqBody.t = "str" /\ ReqBody.s # "" /\ ReqBody.s \notin ValidJsonTexts)
              => result.response.statusCode \in {400, 500}

\* the body NaN, which is not JSON, answered 500 and not 400
C24_Witness ==
    /\ IsPostRoot /\ ReqBody = PyStr("NaN")
    /\ "NaN" \notin ValidJsonTexts
    /\ StatusIs(500)

\* C25: an invocation that ends in 400 or 404, and every GET /health,
\* leaves the store unchanged: no put is called before all three fields
\* were found, the 404 fallback makes no store call, and the health
\* handler calls describe only.
C25_StoreUntouched ==
    [][(~Invoked /\ Invoked') =>
          /\ (StatusIs(400)' \/ StatusIs(404)' \/ IsGetHealth') =>
                table' = table /\ PutCalls' = {}
          /\ StatusIs(404)' => StoreCalls(trace') = {}
          /\ IsGetHealth' =>
                \A i \in StoreCalls(trace') : trace'[i].k = "describe_table"
          /\ \A d \in ObjectDocs :
                (IsPostRoot' /\ Carries(d)' /\ ~(RequiredFields \subseteq Keys(d)))
                    => PutCalls' = {} /\ table' = table
      ]_vars

\* a GET /health answered while the table holds records
C25_Witness ==
    /\ IsGetHealth /\ Returned
    /\ DOMAIN table # {}
    /\ Cardinality(StoreCalls(trace)) = 1

\* the put of this invocation succeeded and its record is in the table
PutSucceeded ==
    /\ ~StoreFails
    /\ \E i \in PutCalls :
          /\ trace[i].Item.id.S \in DOMAIN table
          /\ table[trace[i].Item.id.S] = trace[i].Item

\* C26 (as the specification states it): the response to a POST / agrees
\* with the store, whatever the store call and the log, metric and trace
\* calls around it do: the status is 200 exactly when the put succeeded
\* and the record is in the store, and after a non-200 response the store
\* holds exactly what it held before the request.
C26_ResponseAgreesWithStore ==
    [][(~Invoked /\ IsPostRoot' /\ Returned') =>
          /\ StatusIs(200)' <=> PutSucceeded'
          /\ ~StatusIs(200)' => table' = table
      ]_vars

\* C27: when the event is a mapping and no log, metric or trace call
\* raises, the catch-all is never taken: the two handlers catch every
\* exception of the store and of parsing themselves, no response is the
\* "Internal server error" body, and every 500 is {"message": "Database
\* operation failed"}, without correlation_id.
C27_CatchAllNotTaken ==
    (Invoked /\ IsMapping /\ RaisedSites(trace) = {}) =>
        /\ Returned /\ result.via = "try"
        /\ ~IsCatchAllBody
        /\ StatusIs(500) => BodyIs(MessageText("Database operation failed"))

\* a default insert the store refused, answered by the insert handler
\* itself
C27_Witness ==
    /\ IsPostRoot /\ NoPayload /\ StoreFails
    /\ result.via = "try"
    /\ StatusIs(500) /\ ~IsCatchAllBody

FirstMissing(d) ==
    IF "year" \notin Keys(d) THEN "year"
    ELSE IF "title" \notin Keys(d) THEN "title"
    ELSE "id"

\* the text a present field value is written as: str() of it
WrittenAs(v) ==
    IF v.t = "None" THEN "None"
    ELSE IF v.t = "int" THEN IntToStr(v.n)
    ELSE v.s

\* C29: the required fields are checked in the order year, title, id, and
\* the check stops at the first absent one: the 400 message names only the
\* first missing field in that order, however many are missing; a field
\* that is present with a null or non-string value is accepted and written
\* as its string form.
C29_FirstMissingFieldNamed ==
    /\ \A d \in PartialDocs :
          (IsPostRoot /\ Carries(d)) =>
              /\ StatusIs(400)
              /\ BodyIs(MessageText("Missing required field: '" \o FirstMissing(d) \o "'"))
              /\ PutCalls = {}
    /\ \A d \in FullDocs :
          (IsPostRoot /\ Carries(d)) =>
              /\ Cardinality(PutCalls) = 1
              /\ \A i \in PutCalls :
                    trace[i].Item = [year |-> [N |-> WrittenAs(Lookup(d, "year"))],
                                     title |-> [S |-> WrittenAs(Lookup(d, "title"))],
                                     id |-> [S |-> WrittenAs(Lookup(d, "id"))]]
              /\ (~StoreFails /\ Lookup(d, "id").s # "") => StatusIs(200)

\* an object with only a title: year and id are missing, year is named
C29_Witness ==
    /\ IsPostRoot /\ Carries(Doc(Absent, PyStr("Dune"), Absent))
    /\ StatusIs(400)
    /\ BodyIs(MessageText("Missing required field: 'year'"))

\* the message of the log line written at line 38
ProcessingLogs ==
    {trace[i].msg : i \in {j \in 1..Len(trace) : trace[j].k = "log" /\ trace[j].site = "L38"}}

\* C30: missing routing fields take their defaults before the match. An
\* event without path is routed as path "/", so a POST without path
\* reaches the insert handler and may write to the store; an event without
\* httpMethod is routed as method "" and is always answered 404.
C30_RoutingDefaults ==
    (Invoked /\ IsMapping) =>
        /\ (ReqMethod = PyStr("POST") /\ ReqPath = Absent) =>
              /\ InsertInvoked /\ ~StatusIs(404)
              /\ ProcessingLogs = {"Processing POST request to /"}
              /\ (NoPayload /\ ~StoreFails) => StatusIs(200) /\ Cardinality(PutCalls) = 1
        /\ (ReqMethod = PyStr("GET") /\ ReqPath = Absent) => StatusIs(404)
        /\ ReqMethod = Absent =>
              /\ StatusIs(404) /\ BodyIs(MessageText("Not Found"))
              /\ ~InsertInvoked /\ ~HealthInvoked /\ StoreCalls(trace) = {}
              /\ \A p \in {"/", "/health"} :
                    ReqPath = PyStr(p) => ProcessingLogs = {"Processing  request to " \o p}

\* a POST without path has written a record
C30_Witness ==
    /\ Invoked /\ ReqMethod = PyStr("POST") /\ ReqPath = Absent
    /\ StatusIs(200) /\ Cardinality(PutCalls) = 1
    /\ DOMAIN table # {}

=============================================================================
